---- MODULE Spec2Model ----
(***************************************************************************)
(* Model of scripts/map_data.py (class MapData): the three Overpass        *)
(* queries (run_queries), the way store built by parse_ways, the fusion of *)
(* relation members (parse_rels / combine_ways) and the classification of  *)
(* solitary nodes (parse_nodes).                                           *)
(*                                                                         *)
(* The program is single-threaded; pc is its position.  combine_ways is    *)
(* cut at its fusion points: one step scans (i, j) from the current outer  *)
(* index, applying the orientation reversals on the way, up to the next    *)
(* fusion or to the end of the worklist.                                   *)
(***************************************************************************)
EXTENDS Integers, Sequences, FiniteSets, TLC

VARIABLES
    pc,               \* position of the program
    coords_type,      \* MapData.__init__ argument
    bbox,             \* TRUE when __init__ computed min_lat .. max_long
    tries,            \* run_queries: local counter of the current loop
    got,              \* queries whose osm_*_data attribute is set
    shutdown,         \* rospy.is_shutdown()
    log,              \* rospy.loginfo / logerr lines that matter
    attempts,         \* history: per query, how often the loop body ran
    ways,             \* self.ways: id -> Way
    way_node_ids,     \* self.way_node_ids
    rel_tags,         \* parse_rels: rel.tags of the current relation
    members,          \* parse_rels: rel.members, while the loop of line 310
                      \* and the call of combine_ways are the last thing done
    outer_ids,        \* parse_rels: outer_ids, aliased by combine_ways' ids
    inner_ids,        \* parse_rels: inner_ids
    i,                \* combine_ways: outer scan index (1-based)
    in_ids,           \* history: the id list combine_ways was called with
    fusions,          \* history: the fusions made so far, oldest first
    nrels,            \* relations taken from osm_rels_data so far
    nmembers,         \* relation members appended to outer_ids or inner_ids so far
    nodes_seen,       \* nodes taken from osm_nodes_data so far
    barriers,         \* self.barriers
    OBSTACLE_TAGS,    \* rows (key, value) of obstacle_tags.csv
    NOT_OBSTACLE_TAGS \* rows (key, value) of not_obstacle_tags.csv

vars == <<pc, coords_type, bbox, tries, got, shutdown, log, attempts,
          ways, way_node_ids, rel_tags, members, outer_ids, inner_ids, i,
          in_ids, fusions, nrels, nmembers, nodes_seen, barriers,
          OBSTACLE_TAGS, NOT_OBSTACLE_TAGS>>

queryVars == <<coords_type, bbox, tries, got, shutdown, log, attempts>>
relVars   == <<rel_tags, members, outer_ids, inner_ids, i, in_ids>>
nodeVars  == <<nodes_seen, barriers>>
tableVars == <<OBSTACLE_TAGS, NOT_OBSTACLE_TAGS>>

(***************************************************************************)
(* Bounds of the model.                                                    *)
(***************************************************************************)
MaxRels == 2        \* relations in osm_rels_data
MaxMembers == 4     \* members of one relation, and members of all relations
                    \* that name a stored way
MaxInner == 1       \* members of one relation with a role other than outer
MaxSynth == 3       \* values random() can produce for a synthetic id
MaxNodes == 2       \* nodes in osm_nodes_data

(***************************************************************************)
(* Sequences and dictionaries.                                             *)
(***************************************************************************)
Range(s) == {s[k] : k \in 1..Len(s)}

Last(s) == s[Len(s)]

\* list.reverse()
RECURSIVE Reverse(_)
Reverse(s) == IF s = <<>> THEN <<>> ELSE Append(Reverse(Tail(s)), Head(s))

\* Pop that removes nothing
NoPop(s, k) == s

\* list.pop(k), the remaining list
Pop(s, k) == SubSeq(s, 1, k - 1) \o SubSeq(s, k + 1, Len(s))

SeqsUpTo(S, n) == UNION {[1..m -> S] : m \in 0..n}

\* A tags attribute is None or a dict; a dict is its set of (key, value).
None == [none |-> TRUE, kv |-> {}]

Dict(pairs) == [none |-> FALSE, kv |-> pairs]

Keys(d) == {p[1] : p \in d.kv}

\* dict.update(other): the dict afterwards
Update(d, other) ==
    Dict({p \in d.kv : p[1] \notin Keys(other)} \cup other.kv)

\* "if x.tags is None: x.tags = dict()"
OrEmpty(t) == IF t.none THEN Dict({}) ELSE t

(***************************************************************************)
(* Ways and geometry.                                                      *)
(***************************************************************************)
\* The projected position of a node (utm.from_latlon of its lat/lon), as a
\* label: nodes 3 and 7 lie on the same spot, every other node on its own.
Coord(n) == IF n = 7 THEN 3 ELSE n

\* the projected positions of a node list
RECURSIVE Coords(_)
Coords(ns) == IF ns = <<>> THEN <<>> ELSE <<Coord(Head(ns))>> \o Coords(Tail(ns))

LineString(c) == [kind |-> "LineString", coords |-> c]

Polygon(c) == [kind |-> "Polygon", coords |-> c]

\* Way(): the attributes of a fresh Way object.
Way == [id |-> 0, is_area |-> FALSE, nodes |-> <<>>, tags |-> None,
        line |-> [kind |-> "None", coords |-> <<>>], in_out |-> ""]

Joins(x, y) == IF Last(x) = Head(y) THEN {x \o Tail(y)} ELSE {}

\* shapely.ops.linemerge of two line strings: the lines joined at a shared
\* end point.  The merged line runs in the direction of its parts when they
\* run the same way; when one part runs against the other, or the parts
\* close a ring, the direction (the start) is whichever the library picks.
LineMerge(a, b) ==
    LET x == a.coords
        y == b.coords
        same == Joins(x, y) \cup Joins(y, x)
        opposed == Joins(x, Reverse(y)) \cup Joins(Reverse(y), x)
                   \cup Joins(Reverse(x), y) \cup Joins(y, Reverse(x))
    IN  IF same # {} THEN {LineString(c) : c \in same}
        ELSE IF opposed # {}
        THEN {LineString(c) : c \in opposed \cup {Reverse(m) : m \in opposed}}
        ELSE {[kind |-> "MultiLineString", coords |-> <<x, y>>]}

(***************************************************************************)
(* The data the queries returned.  Ways 1, 2, 3 are the sides of the       *)
(* triangle 1-2-3; way 4 starts on node 3.  Either the sides run in any    *)
(* direction and way 4 is an open way, or the sides run around the         *)
(* triangle and way 4 is a ring, or a way ending on node 7, on the spot    *)
(* of node 3.                                                              *)
(***************************************************************************)
RawTags ==
    [w \in 1..4 |->
        CASE w = 1 -> Dict({<<"name", "a">>})
          [] w = 2 -> Dict({<<"name", "b">>, <<"barrier", "wall">>})
          [] w = 3 -> Dict({<<"landuse", "c">>})
          [] w = 4 -> None]

RawNodes ==
    {<<s1, s2, s3, <<3, 4>>>> :
        s1 \in {<<1, 2>>, <<2, 1>>},
        s2 \in {<<2, 3>>, <<3, 2>>},
        s3 \in {<<3, 1>>, <<1, 3>>}}
    \cup {<<<<1, 2>>, <<2, 3>>, <<3, 1>>, s4>> :
        s4 \in {<<3, 5, 6, 3>>, <<3, 5, 6, 7>>}}

\* self.osm_ways_data.ways: way id -> (nodes, tags)
OsmWays ==
    {[w \in 1..4 |-> [nodes |-> n[w], tags |-> RawTags[w]]] : n \in RawNodes}

\* parse_ways, the body of the loop for one way
StoredWay(id, raw) ==
    LET coords == Coords(raw.nodes)
        is_area == (Head(coords) = Last(coords))
    IN  [Way EXCEPT !.id = id,
                    !.is_area = is_area,
                    !.nodes = raw.nodes,
                    !.tags = OrEmpty(raw.tags),
                    !.line = IF is_area THEN Polygon(coords)
                                        ELSE LineString(coords)]

\* parse_ways
ParseWays ==
    /\ pc = <<"parse_ways">>
    /\ 1 \in got                      \* self.osm_ways_data exists
    /\ \E data \in OsmWays :
          /\ ways' = [id \in DOMAIN data |-> StoredWay(id, data[id])]
          /\ way_node_ids' = way_node_ids \cup
                UNION {Range(data[id].nodes) : id \in DOMAIN data}
    /\ pc' = <<"parse_rels">>
    /\ UNCHANGED <<queryVars, relVars, fusions, nrels, nmembers, nodeVars,
                   tableVars>>

(***************************************************************************)
(* combine_ways.  The local list "ways" holds the objects of the ids in    *)
(* "ids": ways[k] is the stored way ids[k].                                *)
(***************************************************************************)
\* BothLines without the two is_area tests
AnyWays(st, a, b) == TRUE

\* lines 261-266: "not ways[i].is_area and not ways[j].is_area"
BothLines(st, a, b) == ~st[a].is_area /\ ~st[b].is_area

\* Normalize without the elif branch of line 263
NormalizeHeads(st, a, b) ==
    IF Head(st[a].nodes) = Head(st[b].nodes) /\ BothLines(st, a, b)
    THEN [st EXCEPT ![a].nodes = Reverse(@)]
    ELSE st

\* lines 261-264: the orientation normalisation of the pair (a, b)
Normalize(st, a, b) ==
    IF Head(st[a].nodes) = Head(st[b].nodes) /\ BothLines(st, a, b)
    THEN [st EXCEPT ![a].nodes = Reverse(@)]
    ELSE IF Last(st[a].nodes) = Last(st[b].nodes) /\ BothLines(st, a, b)
    THEN [st EXCEPT ![b].nodes = Reverse(@)]
    ELSE st

\* line 266: the fusion trigger of the pair (a, b)
Trigger(st, a, b) ==
    Last(st[a].nodes) = Head(st[b].nodes) /\ BothLines(st, a, b)

\* lines 257-296 from (ii, jj) on, up to the next fusion or to the end of the
\* list: the store with the reversals made on the way, and where it stopped.
\* st1 is the store after lines 261-264 for the pair (ii, jj).
RECURSIVE Scan(_, _, _, _)
Scan(st, ids, ii, jj) ==
    IF ii > Len(ids) THEN [found |-> FALSE, st |-> st, i |-> ii, j |-> jj]
    ELSE IF jj > Len(ids) THEN Scan(st, ids, ii + 1, 1)
    ELSE IF ii = jj THEN Scan(st, ids, ii, jj + 1)
    ELSE CHOOSE r \in
             {IF Trigger(st1, ids[ii], ids[jj])
              THEN [found |-> TRUE, st |-> st1, i |-> ii, j |-> jj]
              ELSE Scan(st1, ids, ii, jj + 1) :
                 st1 \in {Normalize(st, ids[ii], ids[jj])}} : TRUE

\* The values int(-10**15*random()) can take
SynthIds == {0 - k : k \in 0..(MaxSynth - 1)}

\* NewIds without the loop of lines 272-273
AnyNewIds(st) == SynthIds

\* lines 271-273: the ids the retry loop can end with
NewIds(st) == SynthIds \ DOMAIN st

\* lines 270-286: the way synthesized from ways a and b
NewWay(st, a, b, id, merged) ==
    LET nodes == st[a].nodes \o Tail(st[b].nodes)
        closed == (Head(nodes) = Last(nodes))
    IN  [Way EXCEPT !.id = id,
                    !.nodes = nodes,
                    !.tags = None,
                    !.is_area = IF closed THEN TRUE ELSE @,
                    !.line = IF closed THEN Polygon(merged.coords)
                                       ELSE merged]

\* lines 277-281: the tags of ways a and b after the fusion
\* (None becomes an empty dict, a's dict is updated in place with b's)
FusedTags(st, a, b) ==
    LET s1 == [st EXCEPT ![a].tags = OrEmpty(@)]
        s2 == [s1 EXCEPT ![b].tags = OrEmpty(@)]
    IN  [s2 EXCEPT ![a].tags = Update(@, s2[b].tags)]

\* self.ways[new_way.id] = new_way
Insert(st, id, way) ==
    [k \in DOMAIN st \cup {id} |-> IF k = id THEN way ELSE st[k]]

\* combine_ways up to and including its next fusion
Fuse ==
    /\ pc = <<"combine_ways">>
    /\ \E s \in {Scan(ways, outer_ids, i, 1)} :
          /\ s.found
          /\ \E a \in {outer_ids[s.i]}, b \in {outer_ids[s.j]} :
             \E id \in NewIds(s.st), merged \in LineMerge(s.st[a].line, s.st[b].line) :
                /\ ways' = Insert(FusedTags(s.st, a, b), id,
                                  NewWay(s.st, a, b, id, merged))
                /\ outer_ids' = Pop([outer_ids EXCEPT ![s.j] = id], s.i)
                /\ fusions' = Append(fusions, [i |-> a, j |-> b, new |-> id])
          /\ i' = s.i
    /\ members' = <<>>
    /\ UNCHANGED <<pc, queryVars, way_node_ids, rel_tags, inner_ids, in_ids,
                   nrels, nmembers, nodeVars, tableVars>>

\* combine_ways from its last fusion to "return ids"
CombineReturn ==
    /\ pc = <<"combine_ways">>
    /\ \E s \in {Scan(ways, outer_ids, i, 1)} :
          /\ ~s.found
          /\ ways' = s.st
          /\ i' = s.i
    /\ pc' = <<"overlay">>
    /\ members' = <<>>
    /\ UNCHANGED <<queryVars, way_node_ids, rel_tags, outer_ids, inner_ids,
                   in_ids, fusions, nrels, nmembers, nodeVars, tableVars>>

(***************************************************************************)
(* parse_rels.                                                             *)
(***************************************************************************)
\* rel.members: any way as an outer member, ways 1 and 4 as inner members,
\* way 5, which lies outside the queried region, and a member of type node.
Members ==
    {[type |-> "way", ref |-> r, role |-> "outer"] : r \in 1..5}
    \cup {[type |-> "way", ref |-> r, role |-> "inner"] : r \in {1, 4}}
    \cup {[type |-> "node", ref |-> 1, role |-> "outer"]}

\* rel.tags
RelTags == {Dict({<<"name", "r">>, <<"type", "multipolygon">>})}

RECURSIVE Refs(_)
Refs(ms) == IF ms = <<>> THEN <<>> ELSE <<Head(ms).ref>> \o Refs(Tail(ms))

\* OuterOf without the test of line 312
OuterOfListed(ms, keys) ==
    LET pick(m) == m.type = "way" /\ m.role = "outer"
    IN  Refs(SelectSeq(ms, pick))

\* lines 310-314: the refs appended to outer_ids
OuterOf(ms, keys) ==
    LET pick(m) == m.type = "way" /\ m.ref \in keys /\ m.role = "outer"
    IN  Refs(SelectSeq(ms, pick))

\* lines 310-316: the refs appended to inner_ids
InnerOf(ms, keys) ==
    LET pick(m) == m.type = "way" /\ m.ref \in keys /\ m.role # "outer"
    IN  Refs(SelectSeq(ms, pick))

\* lines 304-319: the next relation, up to the call of combine_ways
NextRel ==
    /\ pc = <<"parse_rels">>
    /\ 2 \in got                      \* self.osm_rels_data exists
    /\ nrels < MaxRels
    /\ \E ms \in SeqsUpTo(Members, MaxMembers - nmembers), t \in RelTags :
          /\ Len(InnerOf(ms, DOMAIN ways)) <= MaxInner
          /\ outer_ids' = OuterOf(ms, DOMAIN ways)
          /\ inner_ids' = InnerOf(ms, DOMAIN ways)
          /\ in_ids' = OuterOf(ms, DOMAIN ways)
          /\ rel_tags' = t
          /\ members' = ms
          /\ nmembers' = nmembers + Len(OuterOf(ms, DOMAIN ways))
                                   + Len(InnerOf(ms, DOMAIN ways))
    /\ nrels' = nrels + 1
    /\ i' = 1
    /\ pc' = <<"combine_ways">>
    /\ UNCHANGED <<queryVars, ways, way_node_ids, fusions, nodeVars, tableVars>>

\* OverlayOuter with the tags of the way on top of the relation's
OverlayUnder(st, ids, rtags) ==
    [id \in DOMAIN st |->
        IF id \in Range(ids)
        THEN [st[id] EXCEPT !.in_out = "outer",
                            !.tags = Update(OrEmpty(rtags), OrEmpty(@))]
        ELSE st[id]]

\* lines 321-331: the loop over the merged outer ids
OverlayOuter(st, ids, rtags) ==
    [id \in DOMAIN st |->
        IF id \in Range(ids)
        THEN [st[id] EXCEPT !.in_out = "outer",
                            !.tags = Update(OrEmpty(@), OrEmpty(rtags))]
        ELSE st[id]]

\* MarkInner with the role written by line 324
MarkOuter(st, ids) ==
    [id \in DOMAIN st |->
        IF id \in Range(ids) THEN [st[id] EXCEPT !.in_out = "outer"]
        ELSE st[id]]

\* lines 333-336: the loop over the inner ids
MarkInner(st, ids) ==
    [id \in DOMAIN st |->
        IF id \in Range(ids) THEN [st[id] EXCEPT !.in_out = "inner"]
        ELSE st[id]]

\* lines 321-336: the rest of the relation after combine_ways returned
Overlay ==
    /\ pc = <<"overlay">>
    /\ ways' = MarkInner(OverlayOuter(ways, outer_ids, rel_tags), inner_ids)
    /\ pc' = <<"parse_rels">>
    /\ rel_tags' = None
    /\ outer_ids' = <<>>
    /\ inner_ids' = <<>>
    /\ in_ids' = <<>>
    /\ i' = 1
    /\ UNCHANGED <<queryVars, way_node_ids, members, fusions, nrels, nmembers,
                   nodeVars, tableVars>>

\* line 304: osm_rels_data.relations is exhausted
RelsDone ==
    /\ pc = <<"parse_rels">>
    /\ 2 \in got
    /\ pc' = <<"parse_nodes">>
    /\ UNCHANGED <<queryVars, ways, way_node_ids, relVars, fusions, nrels,
                   nmembers, nodeVars, tableVars>>

(***************************************************************************)
(* parse_nodes.                                                            *)
(***************************************************************************)
OBSTACLE_RADIUS == 2

\* the values a rule table lists under a key: TABLE.get(key, [])
Listed(table, key) == {row[2] : row \in {r \in table : r[1] = key}}

\* IsObstacle with a wildcard that no exclusion limits
IsObstacleAnyValue(node, obstacle, not_obstacle) ==
    \E tag \in node.tags.kv :
        /\ Listed(obstacle, tag[1]) # {}
        /\ \/ tag[2] \in Listed(obstacle, tag[1])
           \/ "*" \in Listed(obstacle, tag[1])

\* line 344: the obstacle test of a node
IsObstacle(node, obstacle, not_obstacle) ==
    \E tag \in node.tags.kv :
        /\ Listed(obstacle, tag[1]) # {}
        /\ \/ tag[2] \in Listed(obstacle, tag[1])
           \/ /\ "*" \in Listed(obstacle, tag[1])
              /\ tag[2] \notin Listed(not_obstacle, tag[1])

\* Solitary without the test of line 342
AnyNode(node, member_ids) == TRUE

\* line 342: the node is on no way
Solitary(node, member_ids) == node.id \notin member_ids

\* lines 345-353: the obstacle made of a node
Obstacle(node) ==
    [Way EXCEPT !.id = node.id,
                !.is_area = TRUE,
                !.tags = node.tags,
                !.line = [kind |-> "Buffer", center |-> Coord(node.id),
                          r |-> OBSTACLE_RADIUS]]

\* self.osm_nodes_data.nodes: node 4, which is on a way in some of the data,
\* node 8, which is on none, each with or without a barrier and a natural tag
OsmNodes ==
    {[id |-> n, tags |-> Dict(b \cup t)] :
        n \in {4, 8},
        b \in {{}, {<<"barrier", "gate">>}, {<<"barrier", "fence">>}},
        t \in {{}, {<<"natural", "tree">>}}}

\* lines 341-355: the body of the loop for the next node
ParseNode ==
    /\ pc = <<"parse_nodes">>
    /\ 3 \in got                      \* self.osm_nodes_data exists
    /\ Cardinality(nodes_seen) < MaxNodes
    /\ \E node \in OsmNodes :
          /\ \A seen \in nodes_seen : seen.id # node.id
          /\ nodes_seen' = nodes_seen \cup {node}
          /\ barriers' =
                IF /\ Solitary(node, way_node_ids)
                   /\ IsObstacle(node, OBSTACLE_TAGS, NOT_OBSTACLE_TAGS)
                THEN barriers \cup {Obstacle(node)}
                ELSE barriers
    /\ UNCHANGED <<pc, queryVars, ways, way_node_ids, relVars, fusions, nrels,
                   nmembers, tableVars>>

\* line 341: osm_nodes_data.nodes is exhausted
NodesDone ==
    /\ pc = <<"parse_nodes">>
    /\ 3 \in got
    /\ pc' = <<"separate_ways">>
    /\ UNCHANGED <<queryVars, ways, way_node_ids, relVars, fusions, nrels,
                   nmembers, nodeVars, tableVars>>

(***************************************************************************)
(* run_queries.  pc = <<"query", q>> is the head of the loop of query q.    *)
(***************************************************************************)
MaxTries == 4

\* "tries < 4 and not rospy.is_shutdown()"
LoopOn == tries < MaxTries /\ ~shutdown

\* where the program goes when the loop of query q is left
AfterQuery(q) ==
    [pc |-> IF q < 3 THEN <<"query", q + 1>> ELSE <<"queries_finished">>,
     log |-> IF q < 3 THEN log ELSE Append(log, "Queries finished.")]

\* lines 168-173: the query is built and answered, the loop is left by break
QueryAnswered ==
    /\ pc[1] = "query"
    /\ LoopOn
    /\ bbox
    /\ attempts' = [attempts EXCEPT ![pc[2]] = @ + 1]
    /\ got' = got \cup {pc[2]}
    /\ tries' = 1
    /\ pc' = AfterQuery(pc[2]).pc
    /\ log' = AfterQuery(pc[2]).log
    /\ UNCHANGED <<coords_type, bbox, shutdown, ways, way_node_ids, relVars,
                   fusions, nrels, nmembers, nodeVars, tableVars>>

\* lines 174-178: building the query or the query itself raised
QueryFailed ==
    /\ pc[1] = "query"
    /\ LoopOn
    /\ attempts' = [attempts EXCEPT ![pc[2]] = @ + 1]
    /\ tries' = tries + 1
    /\ UNCHANGED <<pc, coords_type, bbox, got, shutdown, log, ways,
                   way_node_ids, relVars, fusions, nrels, nmembers, nodeVars,
                   tableVars>>

\* lines 166, 181, 196: the loop condition is false
QueryLoopEnds ==
    /\ pc[1] = "query"
    /\ ~LoopOn
    /\ tries' = 1
    /\ pc' = AfterQuery(pc[2]).pc
    /\ log' = AfterQuery(pc[2]).log
    /\ UNCHANGED <<coords_type, bbox, got, shutdown, attempts, ways,
                   way_node_ids, relVars, fusions, nrels, nmembers, nodeVars,
                   tableVars>>

\* the node is shut down while the queries run
Shutdown ==
    /\ pc[1] = "query"
    /\ ~shutdown
    /\ shutdown' = TRUE
    /\ UNCHANGED <<pc, coords_type, bbox, tries, got, log, attempts, ways,
                   way_node_ids, relVars, fusions, nrels, nmembers, nodeVars,
                   tableVars>>

(***************************************************************************)
(* Spec: run_parse on the data of three successful queries, up to the end  *)
(* of parse_rels.                                                          *)
(***************************************************************************)
EmptyStore == [id \in {} |-> Way]

Init ==
    /\ pc = <<"parse_ways">>
    /\ coords_type = "array"
    /\ bbox = TRUE
    /\ tries = 1
    /\ got = {1, 2, 3}
    /\ shutdown = FALSE
    /\ log = <<>>
    /\ attempts = [q \in 1..3 |-> 1]
    /\ ways = EmptyStore
    /\ way_node_ids = {}
    /\ rel_tags = None
    /\ members = <<>>
    /\ outer_ids = <<>>
    /\ inner_ids = <<>>
    /\ i = 1
    /\ in_ids = <<>>
    /\ fusions = <<>>
    /\ nrels = 0
    /\ nmembers = 0
    /\ nodes_seen = {}
    /\ barriers = {}
    /\ OBSTACLE_TAGS = {}
    /\ NOT_OBSTACLE_TAGS = {}

Next ==
    \/ ParseWays
    \/ NextRel
    \/ Fuse
    \/ CombineReturn
    \/ Overlay
    \/ RelsDone

Spec == Init /\ [][Next]_vars

(***************************************************************************)
(* SpecNodes: run_parse on data without relations, under any of the rule   *)
(* tables.                                                                 *)
(***************************************************************************)
ObstacleRows == {<<"barrier", "*">>, <<"barrier", "gate">>, <<"natural", "tree">>}

NotObstacleRows == {<<"barrier", "gate">>, <<"natural", "tree">>}

InitNodes ==
    /\ pc = <<"parse_ways">>
    /\ coords_type = "array"
    /\ bbox = TRUE
    /\ tries = 1
    /\ got = {1, 2, 3}
    /\ shutdown = FALSE
    /\ log = <<>>
    /\ attempts = [q \in 1..3 |-> 1]
    /\ ways = EmptyStore
    /\ way_node_ids = {}
    /\ rel_tags = None
    /\ members = <<>>
    /\ outer_ids = <<>>
    /\ inner_ids = <<>>
    /\ i = 1
    /\ in_ids = <<>>
    /\ fusions = <<>>
    /\ nrels = 0
    /\ nmembers = 0
    /\ nodes_seen = {}
    /\ barriers = {}
    /\ OBSTACLE_TAGS \in SUBSET ObstacleRows
    /\ NOT_OBSTACLE_TAGS \in SUBSET NotObstacleRows

NextNodes ==
    \/ ParseWays
    \/ RelsDone
    \/ ParseNode
    \/ NodesDone

SpecNodes == InitNodes /\ [][NextNodes]_vars

(***************************************************************************)
(* SpecQueries: run_queries on a freshly constructed MapData.              *)
(***************************************************************************)
InitQueries ==
    /\ pc = <<"query", 1>>
    /\ coords_type \in {"file", "array", "other"}
    /\ bbox = (coords_type \in {"file", "array"})
    /\ tries = 1
    /\ got = {}
    /\ shutdown = FALSE
    /\ log = IF coords_type \in {"file", "array"} THEN <<>>
             ELSE <<"Unknown coords_type.">>
    /\ attempts = [q \in 1..3 |-> 0]
    /\ ways = EmptyStore
    /\ way_node_ids = {}
    /\ rel_tags = None
    /\ members = <<>>
    /\ outer_ids = <<>>
    /\ inner_ids = <<>>
    /\ i = 1
    /\ in_ids = <<>>
    /\ fusions = <<>>
    /\ nrels = 0
    /\ nmembers = 0
    /\ nodes_seen = {}
    /\ barriers = {}
    /\ OBSTACLE_TAGS = {}
    /\ NOT_OBSTACLE_TAGS = {}

NextQueries ==
    \/ QueryAnswered
    \/ QueryFailed
    \/ QueryLoopEnds
    \/ Shutdown

SpecQueries == InitQueries /\ [][NextQueries]_vars

(***************************************************************************)
(* Properties of combine_ways.                                             *)
(***************************************************************************)
Ends(w) == {Head(w.nodes), Last(w.nodes)}

\* a step of combine_ways that made a fusion, and that fusion
Fused == Len(fusions') > Len(fusions)

Fusion == Last(fusions')

Returned == pc = <<"overlay">>

NoRepeats(ids) == Cardinality(Range(ids)) = Len(ids)

\* C1: when combine_ways returns, no two distinct non-area ways among the
\* returned ids share an end node, and a second run of combine_ways on the
\* returned ids finds nothing to fuse.  Stated for the id lists that name no
\* way twice, the id sets of the merge contract.
C1_MergeExhaustive ==
    (Returned /\ NoRepeats(in_ids)) =>
        /\ \A a, b \in Range(outer_ids) :
              (a # b /\ ~ways[a].is_area /\ ~ways[b].is_area)
                  => Ends(ways[a]) \cap Ends(ways[b]) = {}
        /\ ~Scan(ways, outer_ids, 1, 1).found

\* C2: the way synthesized from ways i and j carries i's tags overlaid with
\* j's: every key of either, j's value on a shared key.
C2_FusedTagsOverlay ==
    [][Fused => ways'[Fusion.new].tags =
                    Update(OrEmpty(ways[Fusion.i].tags),
                           OrEmpty(ways[Fusion.j].tags))]_vars

\* C3: a fusion replaces its sources in the store: the keys of the two fused
\* ways are gone, the key of the new way is there until it is fused itself.
C3_SourcesReplaced ==
    \A k \in 1..Len(fusions) :
        /\ fusions[k].i \notin DOMAIN ways
        /\ fusions[k].j \notin DOMAIN ways
        /\ \/ fusions[k].new \in DOMAIN ways
           \/ \E l \in 1..Len(fusions) :
                 fusions[k].new \in {fusions[l].i, fusions[l].j}

\* The ways of the list are distinct open ways that form one cycle: every end
\* node is the end of exactly two of them, and no part of them is closed off
\* from the rest.
FormsCycle(st, ids) ==
    LET W == Range(ids)
        meets(n) == {<<w, e>> \in W \X {1, 2} :
                        n = IF e = 1 THEN Head(st[w].nodes) ELSE Last(st[w].nodes)}
    IN  /\ Len(ids) >= 2
        /\ Cardinality(W) = Len(ids)
        /\ \A w \in W : ~st[w].is_area
        /\ \A w \in W : \A n \in Ends(st[w]) : Cardinality(meets(n)) = 2
        /\ \A S \in (SUBSET W) \ {{}, W} :
              \E a \in S, b \in W \ S : Ends(st[a]) \cap Ends(st[b]) # {}

\* the nodes of all ways of the list
NodesOf(st, ids) == UNION {Range(st[w].nodes) : w \in Range(ids)}

\* C4: if the input ways form a cycle, combine_ways returns one id, of an
\* area way whose nodes start and end on the same node and visit every node
\* of the cycle once in between; A(1,2), B(2,3), C(3,1) in this order give
\* 1, 2, 3, 1.
C4_MergeClosure ==
    (Returned /\ FormsCycle(ways, in_ids)) =>
        /\ Len(outer_ids) = 1
        /\ LET w == ways[outer_ids[1]]
           IN  /\ w.is_area
               /\ Head(w.nodes) = Last(w.nodes)
               /\ Range(w.nodes) = NodesOf(ways, in_ids)
               /\ Len(w.nodes) = Cardinality(Range(w.nodes)) + 1
               /\ (/\ in_ids = <<1, 2, 3>>
                   /\ ways[1].nodes = <<1, 2>>
                   /\ ways[2].nodes = <<2, 3>>
                   /\ ways[3].nodes = <<3, 1>>) => w.nodes = <<1, 2, 3, 1>>

C4_Witness ==
    /\ Returned
    /\ FormsCycle(ways, in_ids)
    /\ in_ids = <<3, 1, 2>>
    /\ Len(outer_ids) = 1
    /\ ways[outer_ids[1]].is_area
    /\ Len(ways[outer_ids[1]].nodes) = 4

(***************************************************************************)
(* Properties of parse_rels.                                               *)
(***************************************************************************)
Overlaid == pc = <<"overlay">> /\ pc' = <<"parse_rels">>

\* the tags of a way with the relation's tags laid on top
WithRelTags(t, rtags) ==
    Dict({p \in OrEmpty(t).kv : \A q \in OrEmpty(rtags).kv : q[1] # p[1]}
         \cup OrEmpty(rtags).kv)

\* C5 as stated: after a relation is processed, every way returned by the
\* merge of its outer members has role outer and its earlier tags with the
\* relation's tags on top.
C5_OuterRoleAndTags ==
    [][Overlaid =>
         \A id \in Range(outer_ids) :
             /\ ways'[id].in_out = "outer"
             /\ ways'[id].tags = WithRelTags(ways[id].tags, rel_tags)]_vars

\* C5, amended: the role is outer unless the relation also lists the way
\* with a role other than outer, and then it is inner; the tags are the
\* earlier tags with the relation's tags on top.
C5_OuterRoleUnlessInner ==
    [][Overlaid =>
         \A id \in Range(outer_ids) :
             /\ ways'[id].in_out =
                   IF id \in Range(inner_ids) THEN "inner" ELSE "outer"
             /\ ways'[id].tags = WithRelTags(ways[id].tags, rel_tags)]_vars

\* a relation has been processed whose merge returned way 2 and a fused way:
\* way 2 kept its barrier tag and took the relation's name, the fused way
\* has the relation's tags, both are outer
C5_Witness ==
    /\ pc = <<"parse_rels">>
    /\ nrels = 1
    /\ ways[2].in_out = "outer"
    /\ ways[2].tags = Dict({<<"barrier", "wall">>, <<"name", "r">>,
                            <<"type", "multipolygon">>})
    /\ \E id \in DOMAIN ways \ (1..4) :
          /\ ways[id].in_out = "outer"
          /\ ways[id].tags = Dict({<<"name", "r">>, <<"type", "multipolygon">>})

\* C6: the id of a synthesized way is no key of the store when the way is
\* inserted: no insertion overwrites a way, and the synthetic ids of a run
\* differ from each other and from the ids of the original ways.
C6_FreshSyntheticId ==
    [][Fused =>
         /\ Fusion.new \notin DOMAIN ways
         /\ Fusion.new \notin 1..4
         /\ \A k \in 1..Len(fusions) : fusions[k].new # Fusion.new
         /\ DOMAIN ways' = DOMAIN ways \cup {Fusion.new}
         /\ Cardinality(DOMAIN ways') = 4 + Len(fusions')]_vars

\* two relations have been processed, each with a fusion
C6_Witness ==
    /\ pc = <<"parse_rels">>
    /\ nrels = 2
    /\ Len(fusions) = 2
    /\ fusions[1].new # fusions[2].new
    /\ {fusions[1].new, fusions[2].new} \subseteq DOMAIN ways
    /\ <<fusions[1].i, fusions[1].j>> = <<fusions[2].i, fusions[2].j>>

\* C7: both operands of a fusion are open ways; an area way, original or
\* closed by an earlier fusion, is not reversed, stays in the worklist and
\* stays an area.
C7_AreasNeverFused ==
    [][/\ Fused => ~ways[Fusion.i].is_area /\ ~ways[Fusion.j].is_area
       /\ \A id \in DOMAIN ways :
             ways[id].is_area =>
                 /\ ways'[id].nodes = ways[id].nodes
                 /\ ways'[id].is_area
                 /\ (pc = <<"combine_ways">> /\ id \in Range(outer_ids))
                        => id \in Range(outer_ids')]_vars

\* combine_ways returned an original area way and a ring closed by fusion
C7_Witness ==
    /\ Returned
    /\ \E a, b \in Range(outer_ids) :
          /\ a \in Range(in_ids)
          /\ ways[a].is_area
          /\ b \notin Range(in_ids)
          /\ ways[b].is_area
          /\ Ends(ways[a]) \cap Ends(ways[b]) # {}

(***************************************************************************)
(* Properties of parse_nodes.                                              *)
(***************************************************************************)
OnWay(n) == \E w \in DOMAIN ways : n \in Range(ways[w].nodes)

ObstaclesOf(n) == {o \in barriers : o.id = n}

\* the tag alone would make its node an obstacle
Qualifies(tag) ==
    \/ tag \in OBSTACLE_TAGS
    \/ /\ <<tag[1], "*">> \in OBSTACLE_TAGS
       /\ tag \notin NOT_OBSTACLE_TAGS

\* the obstacle table lists a wildcard under the key of the tag and the
\* not-obstacle table lists the tag
Excluded(tag) ==
    /\ <<tag[1], "*">> \in OBSTACLE_TAGS
    /\ tag \in NOT_OBSTACLE_TAGS

\* C8 as stated: a solitary node with a tag K = V, where the obstacle table
\* lists K -> * and the not-obstacle table lists K -> V, gets no obstacle.
C8_ExclusionBeatsWildcard ==
    \A node \in nodes_seen :
        (~OnWay(node.id) /\ \E tag \in node.tags.kv : Excluded(tag))
            => ObstaclesOf(node.id) = {}

\* C8, amended: such a node gets no obstacle unless the obstacle table also
\* lists K -> V itself or another tag of the node makes it an obstacle.
C8_ExclusionBeatsWildcardOnly ==
    \A node \in nodes_seen :
        (/\ ~OnWay(node.id)
         /\ \E tag \in node.tags.kv :
               /\ Excluded(tag)
               /\ tag \notin OBSTACLE_TAGS
               /\ \A other \in node.tags.kv \ {tag} : ~Qualifies(other))
            => ObstaclesOf(node.id) = {}

\* the solitary node 8 with the only tag barrier = gate has been parsed
\* under a wildcard for barrier and the exclusion of barrier = gate, and
\* there is no obstacle
C8_Witness ==
    /\ pc = <<"separate_ways">>
    /\ [id |-> 8, tags |-> Dict({<<"barrier", "gate">>})] \in nodes_seen
    /\ OBSTACLE_TAGS = {<<"barrier", "*">>}
    /\ NOT_OBSTACLE_TAGS = {<<"barrier", "gate">>}
    /\ barriers = {}

\* C9: a parsed node has an obstacle iff it is on no way and one of its tags
\* qualifies; it then has exactly one, with the node's id and tags and
\* is_area set, and the barriers hold nothing else.
C9_ObstacleIff ==
    /\ \A node \in nodes_seen :
          IF ~OnWay(node.id) /\ \E tag \in node.tags.kv : Qualifies(tag)
          THEN /\ Cardinality(ObstaclesOf(node.id)) = 1
               /\ \A o \in ObstaclesOf(node.id) :
                     o.is_area /\ o.tags = node.tags
          ELSE ObstaclesOf(node.id) = {}
    /\ \A o \in barriers : \E node \in nodes_seen : o.id = node.id

\* node 8, on no way, became an obstacle; node 4, on a way and with the
\* same qualifying tag, did not
C9_Witness ==
    /\ pc = <<"separate_ways">>
    /\ OnWay(4)
    /\ \E t \in {Dict({<<"barrier", "fence">>})} :
          /\ {[id |-> 4, tags |-> t], [id |-> 8, tags |-> t]} = nodes_seen
          /\ Qualifies(<<"barrier", "fence">>)
    /\ Cardinality(barriers) = 1
    /\ ObstaclesOf(8) # {}

(***************************************************************************)
(* Properties of run_queries.                                              *)
(***************************************************************************)
\* every attempt of query q that the loop allows has failed
Exhausted(q) == q \notin got /\ attempts[q] = MaxTries - 1

\* C10: no query is attempted more than a fixed number of times, and once a
\* query has exhausted its attempts no later query is attempted and the
\* queries are not reported as finished.  The exhaustion is that of a
\* MapData with a recognized coords_type, whose attempts fail in api.query.
C10_ExhaustionAborts ==
    \A q \in 1..3 :
        /\ attempts[q] <= MaxTries - 1
        /\ (Exhausted(q) /\ coords_type \in {"file", "array"}) =>
              /\ \A later \in (q + 1)..3 : attempts[later] = 0
              /\ pc # <<"queries_finished">>
              /\ "Queries finished." \notin Range(log)

(***************************************************************************)
(* combine_ways as a function of the store and the id list, for the        *)
(* properties that compare two calls.                                      *)
(***************************************************************************)
\* lines 271-273: one id the retry loop can end with
FreshId(st) ==
    CHOOSE x \in (0 - Cardinality(DOMAIN st))..0 :
        /\ x \notin DOMAIN st
        /\ \A y \in (x + 1)..0 : y \in DOMAIN st

\* lines 257-298 from outer index ii on.  parts[k] is the set of the ids of
\* the call's list that have been fused into ids[k].
RECURSIVE Combine(_, _, _, _)
Combine(st, ids, ii, parts) ==
    LET s == Scan(st, ids, ii, 1)
    IN  IF ~s.found THEN [st |-> s.st, ids |-> ids, parts |-> parts]
        ELSE LET a == ids[s.i]
                 b == ids[s.j]
                 id == FreshId(s.st)
                 merged == CHOOSE m \in LineMerge(s.st[a].line, s.st[b].line) : TRUE
             IN  Combine(Insert(FusedTags(s.st, a, b), id,
                                NewWay(s.st, a, b, id, merged)),
                         Pop([ids EXCEPT ![s.j] = id], s.i),
                         s.i,
                         Pop([parts EXCEPT ![s.j] = parts[s.i] \cup parts[s.j]],
                             s.i))

RECURSIVE Singletons(_)
Singletons(ids) ==
    IF ids = <<>> THEN <<>> ELSE <<{Head(ids)}>> \o Singletons(Tail(ids))

\* combine_ways(ids) on the store st
CombineWays(st, ids) == Combine(st, ids, 1, Singletons(ids))

\* the partition of the ids into the groups fused together
Partition(st, ids) == Range(CombineWays(st, ids).parts)

\* the orderings of an id list
Orderings(ids) ==
    {p \in [1..Len(ids) -> Range(ids)] :
        \A id \in Range(ids) :
            Cardinality({k \in 1..Len(ids) : p[k] = id})
                = Cardinality({k \in 1..Len(ids) : ids[k] = id})}

\* combine_ways has just been called
Called == pc = <<"combine_ways">> /\ outer_ids = in_ids /\ i = 1

\* C11: from the store of a call of combine_ways, every ordering of the
\* call's id list leads to the same partition of the ids into fused groups.
\* Stated for the id lists that name no way twice.
C11_PartitionOrderFree ==
    (Called /\ NoRepeats(in_ids)) =>
        \A p \in Orderings(in_ids) :
            Partition(ways, p) = Partition(ways, in_ids)

(***************************************************************************)
(* Properties of the member loop of parse_rels.                            *)
(***************************************************************************)
\* the member names a way that is not in the store
Missing(m) == m.type = "way" /\ m.ref \notin DOMAIN ways

\* the member list without the members that name a missing way
Present(ms) == LET keep(m) == ~Missing(m) IN SelectSeq(ms, keep)

\* C12: parse_rels looks up no id that is not a key of the store, and the
\* id lists it makes of a relation's members are those of the member list
\* without the members that name a missing way.
C12_MissingSkipped ==
    /\ Range(outer_ids) \cup Range(inner_ids) \subseteq DOMAIN ways
    /\ Called =>
          /\ outer_ids = OuterOf(Present(members), DOMAIN ways)
          /\ inner_ids = InnerOf(Present(members), DOMAIN ways)
          /\ \A k \in 1..Len(members) :
                Missing(members[k]) =>
                    /\ outer_ids = OuterOf(Pop(members, k), DOMAIN ways)
                    /\ inner_ids = InnerOf(Pop(members, k), DOMAIN ways)

\* a relation lists the missing way 5 between the stored ways 1 and 2
C12_Witness ==
    /\ Called
    /\ Len(members) = 3
    /\ members[1].ref = 1
    /\ members[2] = [type |-> "way", ref |-> 5, role |-> "outer"]
    /\ members[3].ref = 2
    /\ outer_ids = <<1, 2>>

(***************************************************************************)
(* Properties of __init__.                                                 *)
(***************************************************************************)
\* C13: a MapData made with a coords_type other than "file" or "array"
\* never runs the body of a query loop (no attempt, no sleep and retry),
\* sets no osm_*_data and does not get past the first query.
C13_UnknownCoordsTypeFatal ==
    coords_type \notin {"file", "array"} =>
        /\ \A q \in 1..3 : attempts[q] = 0
        /\ tries = 1
        /\ got = {}
        /\ pc = <<"query", 1>>

(***************************************************************************)
(* Invariants of the way store.                                            *)
(***************************************************************************)
\* C14: every way of the store is an area iff its first and its last node
\* have the same id.
C14_AreaIffClosed ==
    \A id \in DOMAIN ways :
        ways[id].is_area <=> (Head(ways[id].nodes) = Last(ways[id].nodes))

\* C15: the geometry of every way of the store is the projection of its
\* nodes in their current order.
C15_GeometryFollowsNodes ==
    \A id \in DOMAIN ways : ways[id].line.coords = Coords(ways[id].nodes)

(***************************************************************************)
(* Frame of combine_ways.                                                  *)
(***************************************************************************)
\* C16: a call of combine_ways deletes no entry of the store, and a way
\* whose id is in the call's list and in the returned list has the nodes,
\* tags, geometry and is_area it had before the call.
C16_UnfusedUntouched ==
    Called =>
        LET r == CombineWays(ways, in_ids)
        IN  /\ DOMAIN ways \subseteq DOMAIN r.st
            /\ \A id \in Range(in_ids) \cap Range(r.ids) :
                  /\ r.st[id].nodes = ways[id].nodes
                  /\ r.st[id].tags = ways[id].tags
                  /\ r.st[id].line = ways[id].line
                  /\ r.st[id].is_area = ways[id].is_area

(***************************************************************************)
(* Frame of parse_rels for the members that are not outer.                 *)
(***************************************************************************)
\* the refs of the stored ways the relation lists with role outer
ListedOuter ==
    {members[k].ref : k \in {n \in 1..Len(members) :
        /\ members[n].type = "way"
        /\ members[n].role = "outer"
        /\ members[n].ref \in DOMAIN ways}}

\* the program is between the member loop of a relation and the end of
\* the relation's loop body
InRelation == pc \in {<<"combine_ways">>, <<"overlay">>}

\* the step leaves nodes, geometry and tags of the way as they are
Kept(id) ==
    /\ ways'[id].nodes = ways[id].nodes
    /\ ways'[id].line = ways[id].line
    /\ ways'[id].tags = ways[id].tags

\* C17 as stated: combine_ways is called with the ids of the members listed
\* as outer only; no step of a relation's processing changes the nodes, the
\* geometry or the tags of a way the relation lists with a role other than
\* outer, and the end of the processing leaves it with role inner.
C17_InnerUntouched ==
    /\ [](Called => Range(in_ids) = ListedOuter)
    /\ [][InRelation =>
            \A id \in Range(inner_ids) :
                /\ Kept(id)
                /\ Overlaid => ways'[id].in_out = "inner"]_vars

\* C17, amended: combine_ways is called with the ids of the members listed
\* as outer only; a way listed with another role ends with role inner; its
\* nodes, geometry and tags are kept unless the relation lists it as outer
\* as well.
C17_InnerUntouchedUnlessOuter ==
    /\ [](Called => Range(in_ids) = ListedOuter)
    /\ [][InRelation =>
            \A id \in Range(inner_ids) :
                /\ id \notin Range(in_ids) => Kept(id)
                /\ Overlaid => ways'[id].in_out = "inner"]_vars

\* a relation with a fusion among its outer members has been processed and
\* its inner member 4 is marked and otherwise as parse_ways stored it
C17_Witness ==
    /\ pc = <<"parse_rels">>
    /\ nrels = 1
    /\ Len(fusions) = 1
    /\ ways[4].in_out = "inner"
    /\ ways[4].nodes = <<3, 4>>
    /\ ways[4].tags = Dict({})
    /\ ways[4].line = LineString(<<3, 4>>)
    /\ fusions[1].j = 2
    /\ ways[fusions[1].new].in_out = "outer"

(***************************************************************************)
(* Termination of combine_ways, on the first call.  The retry loop of      *)
(* lines 272-273 draws random ids until one is unused: a fusion step that  *)
(* stays enabled is taken, and so is the return.                           *)
(***************************************************************************)
\* parse_ways and the first relation up to the return of combine_ways
NextFair ==
    \/ ParseWays
    \/ NextRel
    \/ Fuse
    \/ CombineReturn

SpecFair ==
    Init /\ [][NextFair]_vars /\ WF_vars(Fuse) /\ WF_vars(CombineReturn)

\* every id random() can produce is a key of the store
IdsExhausted == NewIds(ways) = {}

\* C18: a fusion shrinks the worklist by one and does not move the scan
\* index back, the worklist of a non-empty call never gets empty (at most
\* n - 1 fusions for n ids), and a call of combine_ways returns unless a
\* fusion finds no unused id.
C18_Terminates ==
    /\ [][Fused => /\ Len(outer_ids') = Len(outer_ids) - 1
                   /\ i' >= i]_vars
    /\ [](InRelation =>
             /\ Len(outer_ids) <= Len(in_ids)
             /\ in_ids # <<>> => outer_ids # <<>>)
    /\ (pc = <<"combine_ways">>) ~> (Returned \/ IdsExhausted)

\* a call with four ids has returned after three fusions
C18_Witness ==
    /\ Returned
    /\ Len(in_ids) = 4
    /\ Len(outer_ids) = 1
    /\ Len(fusions) = 3

(***************************************************************************)
(* What combine_ways returns.                                              *)
(***************************************************************************)
\* the node list small lies in the node list big in one piece, forward or
\* reversed
Contains(big, small) ==
    \E o \in 0..(Len(big) - Len(small)) :
        SubSeq(big, o + 1, o + Len(small)) \in {small, Reverse(small)}

\* C19: the ids combine_ways returns are keys of the store, there is one id
\* less for every fusion, and every way of the call's list is either
\* returned itself, unfused, or a constituent of exactly one returned fused
\* way, whose nodes contain its nodes in one piece, forward or reversed.
C19_ReturnAccountsForInput ==
    Called =>
        LET r == CombineWays(ways, in_ids)
            made == Cardinality(DOMAIN r.st) - Cardinality(DOMAIN ways)
        IN  /\ Range(r.ids) \subseteq DOMAIN r.st
            /\ Len(r.ids) = Len(in_ids) - made
            /\ \A w \in Range(in_ids) :
                  LET own == {k \in 1..Len(r.ids) : r.ids[k] = w}
                      fused == {k \in 1..Len(r.ids) :
                                   r.ids[k] # w /\ w \in r.parts[k]}
                  IN  /\ (own = {}) # (fused = {})
                      /\ Cardinality(fused) <= 1
                      /\ \A k \in own : r.parts[k] = {w}
                      /\ \A k \in fused :
                            /\ r.ids[k] \notin DOMAIN ways
                            /\ Contains(r.st[r.ids[k]].nodes, ways[w].nodes)

====
